---- MODULE Spec2Model ----
(***************************************************************************)
(* Model of imu_csv.py, the SenseHat motion logger.                        *)
(*                                                                         *)
(* One process runs log_orientation(); the environment is the operator     *)
(* (who enters lines at the terminal), the wall clock, the sensor and the  *)
(* SIGINT signal.                                                          *)
(*                                                                         *)
(* Standard input is a terminal in canonical mode: the operator's input    *)
(* becomes readable one ENTER-terminated line at a time (kern), and one    *)
(* read of the descriptor returns one line.  sys.stdin keeps the part of   *)
(* the line it has fetched and not yet handed out (buf).  select() looks   *)
(* at the descriptor, sys.stdin.read / readline look at buf first.         *)
(*                                                                         *)
(* The record store has two views: written is what the program has handed  *)
(* to the csv writer, disk is what has reached the file.  open(path, 'w')  *)
(* is block buffered: a row reaches the file when the buffer fills or the  *)
(* file is closed.                                                         *)
(***************************************************************************)
EXTENDS Integers, Sequences, FiniteSets, TLC

\* ------------------------------------------------------------ bounds
MaxPending == 1   \* lines the operator has entered and the program not yet fetched
MaxRows    == 2   \* sample rows of a session
MaxTime    == 1   \* wall clock readings are 0..MaxTime
BufferRows == 3   \* rows the file object's buffer holds before it writes them out
MaxStores  == 1   \* record stores of earlier sessions kept under ./log

\* ------------------------------------------------------------ characters and lines
NL == "\n"

Digits == {"0", "1", "2", "3", "4", "5", "6", "7", "8", "9"}

\* str.isdigit() on a one-character string
IsDigit(c) == c \in Digits

\* The lines the operator may enter (each ends with the ENTER key): at the name
\* prompts a name or an answer, afterwards a mode line.
NameLines == { <<NL>>, <<"A", NL>>, <<"n", NL>> }
ModeLines == { <<NL>>, <<"1", NL>>, <<"3", NL>>, <<"4", NL>>, <<"2", "1", NL>> }

\* s without its last character (input() strips the line end)
StripNL(s) == SubSeq(s, 1, Len(s) - 1)

\* str.find(c) != -1
Contains(s, c) == \E i \in 1..Len(s) : s[i] = c

\* index of the first line end of s, 0 when there is none
FirstNL(s) ==
  IF Contains(s, NL) THEN CHOOSE i \in 1..Len(s) : s[i] = NL /\ \A j \in 1..(i-1) : s[j] # NL
  ELSE 0

\* ------------------------------------------------------------ display patterns
red == "red"
blue == "blue"
cyan == "cyan"
pink == "pink"
yellow == "yellow"
black == "black"

pick_led_pattern ==
  << black, blue, black, black, cyan, cyan, cyan, black,
     blue, black, blue, black, black, cyan, black, black,
     blue, blue, black, black, black, cyan, black, black,
     blue, black, black, black, cyan, cyan, cyan, black,
     black, pink, pink, black, yellow, black, black, black,
     pink, black, black, black, yellow, black, yellow, black,
     pink, black, black, black, yellow, yellow, black, black,
     black, pink, pink, black, yellow, black, yellow, black >>

key_led_pattern ==
  << black, black, black, black, black, black, black, black,
     black, black, black, black, black, yellow, yellow, black,
     black, black, black, black, yellow, black, black, yellow,
     yellow, yellow, yellow, yellow, yellow, black, black, yellow,
     yellow, black, yellow, black, yellow, black, black, yellow,
     yellow, black, yellow, black, black, yellow, yellow, black,
     black, black, black, black, black, black, black, black,
     black, black, black, black, black, black, black, black >>

nokey_led_pattern ==
  << red, black, black, black, black, black, black, red,
     black, red, black, black, black, yellow, red, black,
     black, black, red, black, yellow, red, black, yellow,
     yellow, yellow, yellow, red, red, black, black, yellow,
     yellow, black, yellow, red, red, black, black, yellow,
     yellow, black, red, black, black, red, yellow, black,
     black, red, black, black, black, black, red, black,
     red, black, black, black, black, black, black, red >>

\* sense.clear(): every cell off
AllOff == [i \in 1..64 |-> black]

Modes == {"pick", "key", "nokey"}

\* a pattern table with the entries of "key" and "nokey" exchanged
PatternOf_swapped(m) ==
  CASE m = "pick"  -> pick_led_pattern
    [] m = "key"   -> nokey_led_pattern
    [] m = "nokey" -> key_led_pattern

\* the pattern table of display_mode
PatternOf(m) ==
  CASE m = "pick"  -> pick_led_pattern
    [] m = "key"   -> key_led_pattern
    [] m = "nokey" -> nokey_led_pattern

\* a lookup that falls back to the first mode for a digit without an entry
ModeOf_default(d) ==
  CASE d = "1" -> "pick"
    [] d = "2" -> "key"
    [] d = "3" -> "nokey"
    [] OTHER   -> "pick"

\* a lookup that returns the digit itself when it has no entry
ModeOf_passthrough(d) ==
  CASE d = "1" -> "pick"
    [] d = "2" -> "key"
    [] d = "3" -> "nokey"
    [] OTHER   -> d

\* the digit table of select_mode; "KeyError" when the digit has no entry
ModeOf(d) ==
  CASE d = "1" -> "pick"
    [] d = "2" -> "key"
    [] d = "3" -> "nokey"
    [] OTHER   -> "KeyError"

\* ------------------------------------------------------------ record store rows
csv_header == <<"roll", "pitch", "yaw", "x", "y", "z", "timestamp", "runtime", "mode", "name">>

HeaderRow == [kind |-> "header", data |-> csv_header]

IsHeader(r) == r.kind = "header"
IsSample(r) == r.kind = "sample"


\* ------------------------------------------------------------ state
VARIABLES
  pc,               \* the statement of log_orientation the process is at
  kern,             \* lines entered by the operator, not yet fetched from the terminal
  buf,              \* characters sys.stdin has fetched and not yet handed out
  name,             \* log_orientation / set_name: name
  mode,             \* log_orientation: mode
  file_path,        \* log_orientation: file_path, as <<name, start stamp>>
  start_time,       \* log_orientation: start_time
  file,             \* the record store's file object: "unopened", "open", "closed"
  written,          \* rows handed to the csv writer, in order
  disk,             \* rows that have reached the record store
  display,          \* the 64 cells of the LED array
  reads,            \* sensor reads made so far; a read returns its own number
  orientation,      \* log_orientation: orientation
  raw_acceleration, \* log_orientation: raw_acceleration
  exc,              \* the exception that ended the process, "none" while it runs
  exit_status,      \* "running", "success" (0) or "failure"
  sm_skipped,       \* history: the current/last select_mode call read a non-digit
  sm_digits,        \* history: the digits the current/last select_mode call read
  sm_result,        \* history: what that call returned ("running" until it does)
  kh_saw,           \* history: the pending line keyboard_handler saw when it last returned True
  log_dir,          \* the destinations under ./log that hold the rows of earlier sessions
  sn_rejected       \* history: the names set_name has rejected, kept until the destination is derived

vars == << pc, kern, buf, name, mode, file_path, start_time, file, written, disk, display,
           reads, orientation, raw_acceleration, exc, exit_status, sm_skipped, sm_digits,
           sm_result, kh_saw, log_dir, sn_rejected >>

io_vars      == << kern, buf >>
setup_vars   == << name, file_path, start_time, log_dir, sn_rejected >>
store_vars   == << file, written, disk >>
sample_vars  == << reads, orientation, raw_acceleration >>
end_vars     == << exc, exit_status >>
sm_vars      == << sm_skipped, sm_digits, sm_result >>

Running == pc # "terminated"

\* the sample rows of a row sequence
Samples(rows) == SelectSeq(rows, IsSample)

\* ------------------------------------------------------------ standard input
\* a select call that never reports standard input readable
StdinReady_never == FALSE

\* select.select([sys.stdin], [], [], 0): the descriptor has a line to read
StdinReady == kern # <<>>

\* sys.stdin can hand out a character without waiting for the operator
CanRead == buf # <<>> \/ kern # <<>>

\* sys.stdin.read(1): from buf, after fetching one line from the terminal when buf is empty
Read1 ==
  IF buf # <<>>
    THEN [char |-> Head(buf), buf |-> Tail(buf), kern |-> kern]
    ELSE [char |-> Head(Head(kern)), buf |-> Tail(Head(kern)), kern |-> Tail(kern)]

\* a readline that goes to the terminal for a line whatever buf holds
ReadLine_fetch == [line |-> buf \o Head(kern), buf |-> <<>>, kern |-> Tail(kern)]

\* sys.stdin.readline(): through the first line end of buf; when buf has none,
\* buf followed by the next line fetched from the terminal
ReadLine ==
  IF Contains(buf, NL)
    THEN [line |-> SubSeq(buf, 1, FirstNL(buf)),
          buf  |-> SubSeq(buf, FirstNL(buf) + 1, Len(buf)),
          kern |-> kern]
    ELSE [line |-> buf \o Head(kern), buf |-> <<>>, kern |-> Tail(kern)]

\* input(prompt) on a terminal: one line from the terminal, without its line end
InputLine == StripNL(Head(kern))

\* ------------------------------------------------------------ record store
\* the rows on disk after a write of row r: the row goes to the buffer, and the
\* buffer is written out when it is full
AfterWrite(r) ==
  IF Len(written) + 1 - Len(disk) >= BufferRows THEN Append(written, r) ELSE disk

\* an exit that drops what the buffer holds
AfterClose_unflushed == disk

\* the rows on disk after the file object is closed (close flushes)
AfterClose == written

\* a file opened without a with block: nothing closes it on the way out
LeaveWith_open == UNCHANGED store_vars

\* leaving the with block (normally or by an exception) closes the file
LeaveWith ==
  IF file = "open"
    THEN /\ file' = "closed"
         /\ disk' = AfterClose
         /\ written' = written
    ELSE UNCHANGED store_vars

\* an exception nobody catches: traceback, failure status
Raise(e) ==
  /\ pc' = "terminated"
  /\ exc' = e
  /\ exit_status' = "failure"
  /\ LeaveWith

\* what a sensor call returns for the read number v
OrientationOf(v) == [roll |-> v, pitch |-> v, yaw |-> v]
AccelerationOf(v) == [x |-> v, y |-> v, z |-> v]

\* ------------------------------------------------------------ initial state
Init ==
  /\ pc = "set_name"
  /\ kern = <<>>
  /\ buf = <<>>
  /\ name = <<>>
  /\ mode = "unset"
  /\ file_path = << <<>>, 0 >>
  /\ start_time = 0
  /\ file = "unopened"
  /\ written = <<>>
  /\ disk = <<>>
  /\ display \in {AllOff, key_led_pattern}
  /\ reads = 0
  /\ orientation = OrientationOf(0)
  /\ raw_acceleration = AccelerationOf(0)
  /\ exc = "none"
  /\ exit_status = "running"
  /\ sm_skipped = FALSE
  /\ sm_digits = <<>>
  /\ sm_result = "none"
  /\ kh_saw = <<>>
  /\ log_dir = {}
  /\ sn_rejected = {}

\* ------------------------------------------------------------ the operator
\* the lines the operator enters at a statement
LinesAt(p) == IF p \in {"set_name", "name_check"} THEN NameLines ELSE ModeLines

\* the statements that look at standard input
InputPoints == {"set_name", "name_check", "mode_setup", "mode_loop", "keyboard"}

\* the operator enters a line.  Nothing looks at standard input between two input
\* points, so a line entered there is entered at the next input point.
Type(l) ==
  /\ pc \in InputPoints
  /\ l \in LinesAt(pc)
  /\ Len(kern) < MaxPending
  /\ kern' = Append(kern, l)
  /\ UNCHANGED << pc, buf, setup_vars, mode, store_vars, display, sample_vars, end_vars,
                  sm_vars, kh_saw >>

\* ------------------------------------------------------------ set_name
\* a while condition that only looks for the capital letter
Rejected_upper(name_check) == Contains(name_check, "N")

\* the while condition of set_name: the answer contains "N" or "n"
Rejected(name_check) == Contains(name_check, "N") \/ Contains(name_check, "n")

\* name = input(...)
SetNameInput ==
  /\ pc = "set_name"
  /\ kern # <<>>
  /\ name' = InputLine
  /\ kern' = Tail(kern)
  /\ pc' = "name_check"
  /\ UNCHANGED << buf, mode, file_path, start_time, log_dir, sn_rejected, store_vars,
                  display, sample_vars, end_vars, sm_vars, kh_saw >>

\* name_check = input(...), the loop test, return name; then the call of select_mode
SetNameCheck ==
  /\ pc = "name_check"
  /\ kern # <<>>
  /\ kern' = Tail(kern)
  /\ IF Rejected(InputLine)
       THEN /\ pc' = "set_name"
            /\ sn_rejected' = sn_rejected \cup {name}
            /\ UNCHANGED sm_vars
       ELSE /\ pc' = "mode_setup"
            /\ sn_rejected' = sn_rejected
            /\ sm_skipped' = FALSE
            /\ sm_digits' = <<>>
            /\ sm_result' = "running"
  /\ UNCHANGED << buf, name, file_path, start_time, log_dir, mode, store_vars, display,
                  sample_vars, end_vars, kh_saw >>

\* ------------------------------------------------------------ select_mode
\* where select_mode returns to
AfterSelect == IF pc = "mode_setup" THEN "file_path" ELSE "keyboard"

\* one num_mode = sys.stdin.read(1) with the test that follows it: a non-digit is
\* skipped, a digit is looked up and the mode returned (or KeyError raised)
SelectModeRead ==
  /\ pc \in {"mode_setup", "mode_loop"}
  /\ CanRead
  /\ LET r == Read1
         num_mode == r.char
     IN  /\ buf' = r.buf
         /\ kern' = r.kern
         /\ IF ~IsDigit(num_mode)
              THEN /\ sm_skipped' = TRUE
                   /\ UNCHANGED << pc, mode, store_vars, end_vars, sm_digits, sm_result, kh_saw >>
              ELSE /\ sm_digits' = Append(sm_digits, num_mode)
                   /\ sm_skipped' = sm_skipped
                   /\ kh_saw' = <<>>
                   /\ IF ModeOf(num_mode) = "KeyError"
                        THEN /\ sm_result' = "KeyError"
                             /\ mode' = mode
                             /\ Raise("KeyError")
                        ELSE /\ sm_result' = ModeOf(num_mode)
                             /\ mode' = ModeOf(num_mode)
                             /\ pc' = AfterSelect
                             /\ UNCHANGED << store_vars, end_vars >>
  /\ UNCHANGED << setup_vars, display, sample_vars >>

\* ------------------------------------------------------------ log_orientation: setup
\* file_path = ... datetime.now() ...; start_time = time.time()
FilePath ==
  /\ pc = "file_path"
  /\ \E now \in 0..MaxTime :
       /\ file_path' = << name, now >>
       /\ start_time' = now
  /\ sn_rejected' = {}
  /\ pc' = "open"
  /\ UNCHANGED << io_vars, name, log_dir, mode, store_vars, display, sample_vars, end_vars,
                  sm_vars, kh_saw >>

\* with open(file_path, 'w', newline='') as file: the file is created empty, or
\* emptied when the destination exists; or the open fails (no ./log directory)
Open ==
  /\ pc = "open"
  /\ \E ok \in BOOLEAN :
       IF ok
         THEN /\ file' = "open"
              /\ written' = <<>>
              /\ disk' = <<>>
              /\ log_dir' = log_dir \ {file_path}
              /\ pc' = "header"
              /\ UNCHANGED end_vars
         ELSE /\ log_dir' = log_dir
              /\ Raise("OSError")
  /\ UNCHANGED << io_vars, name, file_path, start_time, sn_rejected, mode, display,
                  sample_vars, sm_vars, kh_saw >>

\* writer.writerow(csv_header)
Header ==
  /\ pc = "header"
  /\ written' = Append(written, HeaderRow)
  /\ disk' = AfterWrite(HeaderRow)
  /\ pc' = "keyboard"
  /\ UNCHANGED << io_vars, setup_vars, mode, file, display, sample_vars, end_vars, sm_vars,
                  kh_saw >>

\* ------------------------------------------------------------ log_orientation: the loop
\* a handler that throws away everything the operator has entered
keyboard_handler_drain ==
  IF StdinReady
    THEN [ret |-> TRUE, buf |-> <<>>, kern |-> <<>>]
    ELSE [ret |-> FALSE, buf |-> buf, kern |-> kern]

\* keyboard_handler(): select with no wait; when the descriptor is readable, one
\* sys.stdin.readline() whose result is dropped, and True; else False
keyboard_handler ==
  IF StdinReady
    THEN [ret |-> TRUE, buf |-> ReadLine.buf, kern |-> ReadLine.kern]
    ELSE [ret |-> FALSE, buf |-> buf, kern |-> kern]

\* if keyboard_handler(): ... else: ...
Keyboard ==
  /\ pc = "keyboard"
  /\ LET k == keyboard_handler
     IN  /\ buf' = k.buf
         /\ kern' = k.kern
         /\ IF k.ret
              THEN /\ pc' = "mode_loop"
                   /\ kh_saw' = Head(kern)
                   /\ sm_skipped' = FALSE
                   /\ sm_digits' = <<>>
                   /\ sm_result' = "running"
              ELSE /\ pc' = "display"
                   /\ UNCHANGED << sm_vars, kh_saw >>
  /\ UNCHANGED << setup_vars, mode, store_vars, display, sample_vars, end_vars >>

\* a display_mode that looks the pattern up and never pushes it to the display
DisplayMode_skip ==
  /\ pc = "display"
  /\ Len(Samples(written)) < MaxRows
  /\ IF mode \in Modes
       THEN /\ display' = display
            /\ pc' = "orientation"
            /\ UNCHANGED << store_vars, end_vars >>
       ELSE /\ display' = display
            /\ Raise("KeyError")
  /\ UNCHANGED << io_vars, setup_vars, mode, sample_vars, sm_vars, kh_saw >>

\* display_mode(mode): the pattern of the mode, pushed in one set_pixels call
DisplayMode ==
  /\ pc = "display"
  /\ Len(Samples(written)) < MaxRows
  /\ IF mode \in Modes
       THEN /\ display' = PatternOf(mode)
            /\ pc' = "orientation"
            /\ UNCHANGED << store_vars, end_vars >>
       ELSE /\ display' = display
            /\ Raise("KeyError")
  /\ UNCHANGED << io_vars, setup_vars, mode, sample_vars, sm_vars, kh_saw >>

\* an orientation read whose failure is caught: the loop goes on with the
\* orientation of the sample before
Orientation_caught ==
  /\ pc = "orientation"
  /\ reads' = reads + 1
  /\ \/ /\ orientation' = OrientationOf(reads + 1)
        /\ pc' = "acceleration"
        /\ UNCHANGED << store_vars, end_vars >>
     \/ /\ orientation' = orientation
        /\ pc' = "acceleration"
        /\ UNCHANGED << store_vars, end_vars >>
  /\ UNCHANGED << io_vars, setup_vars, mode, display, raw_acceleration, sm_vars, kh_saw >>

\* orientation = sense.get_orientation_degrees(), which may fail
Orientation ==
  /\ pc = "orientation"
  /\ reads' = reads + 1
  /\ \/ /\ orientation' = OrientationOf(reads + 1)
        /\ pc' = "acceleration"
        /\ UNCHANGED << store_vars, end_vars >>
     \/ /\ orientation' = orientation
        /\ Raise("OSError")
  /\ UNCHANGED << io_vars, setup_vars, mode, display, raw_acceleration, sm_vars, kh_saw >>

\* raw_acceleration = sense.get_accelerometer_raw(), which may fail
Acceleration ==
  /\ pc = "acceleration"
  /\ reads' = reads + 1
  /\ \/ /\ raw_acceleration' = AccelerationOf(reads + 1)
        /\ pc' = "writerow"
        /\ UNCHANGED << store_vars, end_vars >>
     \/ /\ raw_acceleration' = raw_acceleration
        /\ Raise("OSError")
  /\ UNCHANGED << io_vars, setup_vars, mode, display, orientation, sm_vars, kh_saw >>

\* runtime = time.time() - start_time, for the clock reading now
Elapsed(now) == now - start_time

\* the data list of one iteration, for the clock reading now
Data(now) ==
  [kind |-> "sample",
   data |-> [roll |-> orientation.roll, pitch |-> orientation.pitch, yaw |-> orientation.yaw,
             x |-> raw_acceleration.x, y |-> raw_acceleration.y, z |-> raw_acceleration.z,
             timestamp |-> now, runtime |-> Elapsed(now), mode |-> mode, name |-> name]]

\* a loop body that writes the header before each row
WriteRow_header ==
  /\ pc = "writerow"
  /\ \E now \in 0..MaxTime :
       /\ written' = written \o << HeaderRow, Data(now) >>
       /\ disk' = AfterWrite(Data(now))
  /\ pc' = "keyboard"
  /\ UNCHANGED << io_vars, setup_vars, mode, file, display, sample_vars, end_vars, sm_vars,
                  kh_saw >>

\* a loop body that writes each row twice
WriteRow_twice ==
  /\ pc = "writerow"
  /\ \E now \in 0..MaxTime :
       /\ written' = written \o << Data(now), Data(now) >>
       /\ disk' = AfterWrite(Data(now))
  /\ pc' = "keyboard"
  /\ UNCHANGED << io_vars, setup_vars, mode, file, display, sample_vars, end_vars, sm_vars,
                  kh_saw >>

\* runtime = ...; data = [...]; writer.writerow(data); print(...).  The wall clock
\* reads any value: it moves forward as time passes and backward when it is set back.
WriteRow ==
  /\ pc = "writerow"
  /\ \E now \in 0..MaxTime :
       /\ written' = Append(written, Data(now))
       /\ disk' = AfterWrite(Data(now))
  /\ pc' = "keyboard"
  /\ UNCHANGED << io_vars, setup_vars, mode, file, display, sample_vars, end_vars, sm_vars,
                  kh_saw >>

\* ------------------------------------------------------------ sigint_handler
\* a handler that leaves the display as it is
sense_clear_skipped == display

\* sense.clear()
sense_clear == AllOff

\* SIGINT while the process runs: print, sense.clear(), exit(0); the SystemExit
\* leaves the with block when the file is open
Sigint ==
  /\ Running
  /\ display' = sense_clear
  /\ pc' = "terminated"
  /\ exc' = "SystemExit"
  /\ exit_status' = "success"
  /\ LeaveWith
  /\ UNCHANGED << io_vars, setup_vars, mode, sample_vars, sm_vars, kh_saw >>

\* ------------------------------------------------------------ specification
Next ==
  \/ \E l \in NameLines \cup ModeLines : Type(l)
  \/ SetNameInput
  \/ SetNameCheck
  \/ SelectModeRead
  \/ FilePath
  \/ Open
  \/ Header
  \/ Keyboard
  \/ DisplayMode
  \/ Orientation
  \/ Acceleration
  \/ WriteRow
  \/ Sigint

Spec == Init /\ [][Next]_vars

\* ------------------------------------------------------------ one session after another
\* the script is run again after a session has ended: a new process and a new
\* session; the record store the ended session opened stays under ./log, and the
\* display keeps what it shows
Restart ==
  /\ pc = "terminated"
  /\ log_dir' = IF file = "unopened" THEN log_dir ELSE log_dir \cup {file_path}
  /\ Cardinality(log_dir') <= MaxStores
  /\ pc' = "set_name"
  /\ kern' = <<>>
  /\ buf' = <<>>
  /\ name' = <<>>
  /\ mode' = "unset"
  /\ file_path' = << <<>>, 0 >>
  /\ start_time' = 0
  /\ file' = "unopened"
  /\ written' = <<>>
  /\ disk' = <<>>
  /\ display' = display
  /\ reads' = 0
  /\ orientation' = OrientationOf(0)
  /\ raw_acceleration' = AccelerationOf(0)
  /\ exc' = "none"
  /\ exit_status' = "running"
  /\ sm_skipped' = FALSE
  /\ sm_digits' = <<>>
  /\ sm_result' = "none"
  /\ kh_saw' = <<>>
  /\ sn_rejected' = {}

NextSessions == Next \/ Restart

SpecSessions == Init /\ [][NextSessions]_vars

\* ------------------------------------------------------------ properties
Last(q) == q[Len(q)]

LoopPoints == {"keyboard", "mode_loop", "display", "orientation", "acceleration", "writerow"}

\* the runtime column of the sample rows, in file order
Runtimes(rows) == [i \in 1..Len(Samples(rows)) |-> Samples(rows)[i].data.runtime]

\* C1: select_mode skips non-digits and decides on the first digit it reads: while it
\* runs it has read no digit; when it is over it has read exactly one digit, and it
\* returned pick for 1, key for 2, nokey for 3, and no mode for any other digit.
C1_SelectModeTable ==
  /\ sm_result = "running" => sm_digits = <<>>
  /\ sm_result \notin {"none", "running"} =>
       /\ Len(sm_digits) = 1
       /\ sm_digits[1] = "1" => sm_result = "pick"
       /\ sm_digits[1] = "2" => sm_result = "key"
       /\ sm_digits[1] = "3" => sm_result = "nokey"
       /\ sm_digits[1] \notin {"1", "2", "3"} => sm_result \notin Modes
  /\ sm_result \in Modes => mode = sm_result

\* a call that skipped a non-digit and then returned nokey for the digit 3
C1_Witness == sm_skipped /\ sm_digits = <<"3">> /\ sm_result = "nokey"

\* C2 (as claimed): an unrecognized mode digit never leaves select_mode as an error
\* and never ends the logger.
C2_DigitRecoverable == exc # "KeyError" /\ sm_result # "KeyError"

\* C3 (as claimed): the runtime values of the rows, in file order, are non-decreasing
\* and the first one is >= 0.
C3_RuntimeMonotone ==
  LET rt == Runtimes(written)
  IN  /\ Len(rt) > 0 => rt[1] >= 0
      /\ \A i \in 1..(Len(rt) - 1) : rt[i] <= rt[i + 1]

\* C4: the header row is the first row of the record store and no other row is a
\* header: it is there once the loop runs, and no iteration or mode switch writes it again.
C4_HeaderOnceFirst ==
  /\ written # <<>> => IsHeader(written[1]) /\ \A i \in 2..Len(written) : IsSample(written[i])
  /\ disk # <<>> => IsHeader(disk[1]) /\ \A i \in 2..Len(disk) : IsSample(disk[i])
  /\ pc \in LoopPoints => written # <<>>

\* two sample rows with a mode switch between them, below one header
C4_Witness ==
  /\ Len(written) = 3
  /\ IsSample(written[2]) /\ IsSample(written[3])
  /\ written[2].data.mode # written[3].data.mode

\* C6: after the interrupt signal the display is all off and the exit status is
\* success, wherever in the run the signal arrived; nothing writes the display later.
C6_InterruptClearsDisplay ==
  exc = "SystemExit" => pc = "terminated" /\ display = AllOff /\ exit_status = "success"

\* the signal arrived inside the blocking read of a mode switch, after a sample
C6_Witness ==
  /\ exc = "SystemExit"
  /\ sm_result = "running"
  /\ file = "closed"
  /\ Len(Samples(written)) > 0

\* C7: after the interrupt signal the record store holds exactly the rows appended
\* before it, header first, in order.
C7_InterruptKeepsRows ==
  (exc = "SystemExit" /\ file = "closed") => disk = written

\* the signal arrived in the loop while the header and a sample row were still in
\* the buffer (fewer rows than the buffer holds had been written)
C7_Witness ==
  /\ exc = "SystemExit"
  /\ file = "closed"
  /\ Len(disk) < BufferRows
  /\ Len(Samples(disk)) = 1

\* C8 (as claimed): when a row is appended every earlier row is on disk, so at most
\* the last row appended is missing from the record store.
C8_FlushedBeforeNext == Len(written) - Len(disk) <= 1

\* the line "3"
Line3 == <<"3", NL>>

\* C5: when the line "3" is pending at the start of an iteration, that iteration is a
\* mode switch: it appends no row, it needs no further input, and it ends with mode
\* nokey. Every row carries the mode variable, which only select_mode changes.
C5_SwitchOnThree ==
  [][ /\ (pc = "keyboard" /\ kern # <<>> /\ Head(kern) = Line3) => pc' # "display"
      /\ (pc = "mode_loop" /\ kh_saw = Line3) =>
           /\ CanRead
           /\ written' = written
           /\ exc' # "KeyError"
           /\ pc' \in {"mode_loop", "keyboard", "terminated"}
           /\ pc' = "keyboard" => mode' = "nokey"
      /\ (pc = "writerow" /\ written' # written) =>
           /\ Last(written').data.mode = mode
           /\ mode' = mode
      /\ mode' # mode =>
           /\ pc \in {"mode_setup", "mode_loop"}
           /\ Len(sm_digits') = Len(sm_digits) + 1
    ]_vars

\* a row tagged pick, then a row tagged nokey
C5_Witness ==
  /\ Len(written) = 3
  /\ IsSample(written[2]) /\ written[2].data.mode = "pick"
  /\ IsSample(written[3]) /\ written[3].data.mode = "nokey"

\* C9: keyboard_handler returns at once, True when a line is queued and False when none is.
C9_KeyboardHandlerResult ==
  [][ /\ pc = "keyboard" => ENABLED Keyboard
      /\ (pc = "keyboard" /\ pc' \in {"display", "mode_loop"}) =>
           ((pc' = "mode_loop") <=> (kern # <<>>))
    ]_vars

\* it returned True for the pending line "3" (the mode switch is under way)
C9_Witness == pc = "mode_loop" /\ kh_saw = Line3 /\ Len(Samples(written)) = 1

\* C10 (as claimed): keyboard_handler only checks; it reads nothing from standard input.
C10_OnlyChecks ==
  [][ (pc = "keyboard" /\ pc' \in {"display", "mode_loop"}) => (buf' = buf /\ kern' = kern) ]_vars

\* C10 (amended): keyboard_handler reads nothing when no line is pending. When one is
\* pending it reads and drops what sys.stdin still holds of the line the last
\* select_mode call took its digit from; the pending line stays for select_mode, which
\* reads it from its first character.
C10_LeavesPendingLine ==
  [][ /\ (pc = "keyboard" /\ pc' \in {"display", "mode_loop"}) =>
           /\ kern' = kern
           /\ kern = <<>> => buf' = buf
           /\ kern # <<>> => (buf # <<>> /\ FirstNL(buf) = Len(buf) /\ buf' = <<>>)
      /\ (pc = "mode_loop" /\ kh_saw # <<>> /\ ~sm_skipped /\ sm_digits = <<>>) =>
           /\ sm_skipped' => ~IsDigit(Head(kh_saw))
           /\ sm_digits' # <<>> => sm_digits' = << Head(kh_saw) >>
    ]_vars

\* keyboard_handler has returned True and dropped the rest of the old line; the
\* pending line "21" is still unread
C10_Witness ==
  /\ pc = "mode_loop"
  /\ buf = <<>>
  /\ kern = << <<"2", "1", NL>> >>
  /\ kh_saw = <<"2", "1", NL>>
  /\ sm_digits = <<>> /\ ~sm_skipped

\* C11 (as claimed): the destination of a session differs from the destination of
\* every earlier session, so opening it empties no earlier session's record store.
C11_DestinationsDistinct == pc = "open" => file_path \notin log_dir

\* C12 (as claimed): the operator name the session uses, in the destination and in
\* every row, is a non-empty string, and every row carries that same name.
C12_NameNonEmpty ==
  /\ file # "unopened" => file_path[1] = name /\ name # <<>>
  /\ \A i \in 1..Len(written) :
       IsSample(written[i]) => written[i].data.name = name /\ name # <<>>

\* C13: a call display_mode(M) with M one of pick, key, nokey leaves on the display
\* the 64-entry pattern of M, whatever the display showed before the call.
C13_DisplayModePattern ==
  [][ (pc = "display" /\ pc' = "orientation")
        => /\ Len(display') = 64
           /\ mode = "pick"  => display' = pick_led_pattern
           /\ mode = "key"   => display' = key_led_pattern
           /\ mode = "nokey" => display' = nokey_led_pattern ]_vars

\* display_mode("nokey") has run after an earlier call display_mode("pick")
C13_Witness ==
  /\ pc = "orientation"
  /\ display = nokey_led_pattern
  /\ Len(Samples(written)) = 1
  /\ Last(written).data.mode = "pick"

\* C14: an iteration of the sampling loop is either a mode selection, which appends
\* no row, or one sample, which appends exactly one row after the rows already
\* written; no other step of the loop appends a row; and the rows are the samples
\* taken, in order: the k-th row holds the k-th orientation read and the k-th
\* acceleration read, and at the top of the loop every sample taken has its row.
C14_OneRowPerSample ==
  [][ /\ pc = "mode_loop" => written' = written
      /\ (pc = "writerow" /\ pc' = "keyboard")
           => /\ Len(written') = Len(written) + 1
              /\ SubSeq(written', 1, Len(written)) = written
              /\ IsSample(Last(written'))
      /\ (pc \in LoopPoints /\ written' # written) => (pc = "writerow" /\ pc' = "keyboard")
      /\ \A k \in 1..Len(Samples(written')) :
           /\ Samples(written')[k].data.roll = 2 * k - 1
           /\ Samples(written')[k].data.x = 2 * k
      /\ pc' = "keyboard" => reads' = 2 * Len(Samples(written')) ]_vars

\* two samples were taken with a mode selection between them
C14_Witness ==
  /\ pc = "keyboard"
  /\ Len(Samples(written)) = 2
  /\ Samples(written)[1].data.mode # Samples(written)[2].data.mode

HasDigit(s) == \E i \in 1..Len(s) : IsDigit(s[i])

FirstDigit(s) == s[CHOOSE i \in 1..Len(s) : IsDigit(s[i]) /\ \A j \in 1..(i - 1) : ~IsDigit(s[j])]

\* C15 (as claimed): during sampling select_mode never waits for the operator: its
\* read always finds input to take.
C15_NeverBlocks == pc = "mode_loop" => CanRead

\* C15 (amended): during sampling select_mode is entered only after keyboard_handler
\* returned True for a pending line. When that line holds a digit, select_mode
\* never waits for the operator: it takes the first digit of that line, and when
\* the digit is 1, 2 or 3 the loop goes back to sampling. (A pending line with no
\* digit leaves select_mode waiting for the operator.)
C15_CompletesFromPendingDigit ==
  [][ /\ (pc' = "mode_loop" /\ pc # "mode_loop")
           => (pc = "keyboard" /\ kern # <<>> /\ kh_saw' = Head(kern))
      /\ (pc = "mode_loop" /\ HasDigit(kh_saw))
           => /\ CanRead
              /\ sm_digits = <<>>
              /\ sm_digits' # <<>> => sm_digits' = << FirstDigit(kh_saw) >>
              /\ (pc' = "keyboard") <=> (sm_digits' # <<>> /\ FirstDigit(kh_saw) \in {"1", "2", "3"})
    ]_vars

\* a mode switch from pick to key has completed from the pending line "21" alone
C15_Witness ==
  /\ pc = "keyboard"
  /\ mode = "key"
  /\ Len(Samples(written)) = 1
  /\ Last(written).data.mode = "pick"
  /\ ~sm_skipped
  /\ kern = <<>>

\* C16: every row appended carries the mode the most recent completed select_mode
\* call returned, and at the moment it is appended the display shows the pattern of
\* that mode; so no row written after a mode change carries the mode before it.
C16_RowModeIsCurrent ==
  [][ (pc = "writerow" /\ written' # written)
        => /\ sm_result \in Modes
           /\ Last(written').data.mode = sm_result
           /\ sm_result = "pick"  => display = pick_led_pattern
           /\ sm_result = "key"   => display = key_led_pattern
           /\ sm_result = "nokey" => display = nokey_led_pattern ]_vars

\* a row tagged pick, then a switch to nokey, then a row tagged nokey
C16_Witness ==
  /\ pc = "keyboard"
  /\ Len(Samples(written)) = 2
  /\ Samples(written)[1].data.mode = "pick"
  /\ Samples(written)[2].data.mode = "nokey"
  /\ sm_result = "nokey"
  /\ display = nokey_led_pattern

\* C17: display_mode is only ever called with one of the modes pick, key, nokey, so
\* its pattern lookup never fails: from the return of the first select_mode call on
\* the mode variable holds one of the three, and a KeyError that ends the process
\* is the one select_mode raised.
C17_DisplayModeInTable ==
  /\ pc = "display" => mode \in Modes
  /\ pc \in LoopPoints \cup {"file_path", "open", "header"} => mode \in Modes
  /\ exc = "KeyError" => sm_result = "KeyError"

\* display_mode is about to be called with a mode selected during sampling
C17_Witness ==
  /\ pc = "display"
  /\ Len(Samples(written)) = 1
  /\ mode # Last(written).data.mode
  /\ sm_digits # <<>>

Answers == { <<>>, <<"y">>, <<"n">>, <<"N">>, <<"n", "o">>, <<"y", "N">>, <<"y", "e", "s">> }

Negative(a) == \E i \in 1..Len(a) : a[i] \in {"N", "n"}

\* C18: set_name takes the name from the line entered at the name prompt; after the
\* confirmation answer it prompts again exactly when the answer holds "N" or "n",
\* and otherwise returns with the name of that round, which nothing changes later.
C18_SetNameLoop ==
  [][ /\ (pc = "set_name" /\ pc' = "name_check") => name' = StripNL(Head(kern))
      /\ (pc = "name_check" /\ pc' \in {"set_name", "mode_setup"})
           => /\ (pc' = "set_name") <=> Negative(StripNL(Head(kern)))
              /\ name' = name
      /\ name' # name => pc = "set_name"
      /\ \A a \in Answers : Rejected(a) <=> Negative(a)
    ]_vars

\* set_name has returned the name "A" after the operator rejected the name "n"
C18_Witness ==
  /\ pc = "mode_setup"
  /\ name = <<"A">>
  /\ sn_rejected = { <<"n">> }

Columns == { csv_header[j] : j \in 1..Len(csv_header) }

\* C19: a sensor read that fails ends the process with a failure status and appends
\* no row for its iteration; and every row holds all ten fields, its orientation
\* and its acceleration being the two reads of one and the same iteration.
C19_SensorFailureNoRow ==
  [][ /\ (pc \in {"orientation", "acceleration"} /\ exc' = "OSError")
           => /\ pc' = "terminated"
              /\ exit_status' = "failure"
              /\ written' = written
              /\ Len(Samples(written')) = (reads' - 1) \div 2
      /\ \A i \in 1..Len(written') :
           IsSample(written'[i]) =>
             LET d == written'[i].data
             IN  /\ DOMAIN d = Columns
                 /\ Cardinality(Columns) = 10
                 /\ d.pitch = d.roll /\ d.yaw = d.roll
                 /\ d.y = d.x /\ d.z = d.x
                 /\ d.x = d.roll + 1
    ]_vars

\* the acceleration read of the second iteration failed after its orientation read
\* had succeeded: one row, of the first iteration
C19_Witness ==
  /\ pc = "terminated"
  /\ exc = "OSError"
  /\ reads = 4
  /\ orientation.roll = 3
  /\ Len(Samples(written)) = 1

\* C20: the record store is opened once in a session, by the open statement, after
\* set_name and the first select_mode call have returned; it stays open through
\* the header and the loop; the only other change to it is its closing, which
\* happens on every way out of the process (interrupt, failing sensor read,
\* KeyError of select_mode): no ended process has left it open.
C20_OpenedOnceClosedOnExit ==
  [][ /\ file' # file =>
           \/ /\ file = "unopened" /\ file' = "open"
              /\ pc = "open"
              /\ mode \in Modes /\ sm_result = mode
           \/ /\ file = "open" /\ file' = "closed"
              /\ pc' = "terminated"
      /\ pc' = "terminated" => file' # "open"
      /\ pc' \in LoopPoints \cup {"header"} => file' = "open"
    ]_vars

\* a KeyError of select_mode during sampling has ended the process, the record
\* store closed with its one row written out
C20_Witness ==
  /\ pc = "terminated"
  /\ exc = "KeyError"
  /\ file = "closed"
  /\ Len(Samples(disk)) = 1

====
